---- MODULE Spec2Model ----
(***************************************************************************)
(* Model of the MONAD optimizer of obi1kenobi/monad_compiler:              *)
(* the abstract values (src/src/values.rs), the instruction evaluator,     *)
(* the forward pass constant_propagation, the backward pass                *)
(* find_used_values and the filter Program::optimize                       *)
(* (src/src/optimization.rs).                                              *)
(***************************************************************************)
EXTENDS Integers, Sequences, FiniteSets, TLC

(***************************************************************************)
(* Bounds of the model.                                                    *)
(***************************************************************************)
\* Longest instruction sequence handed to the optimizer.
MaxLen == 3

(***************************************************************************)
(* Program constants.                                                      *)
(***************************************************************************)
\* Vid::UNDEFINED, the reserved identity (values.rs:21).
UNDEFINED == 0
\* Vid::unique_id_maker starts at 1 (values.rs:25).
FirstVid == 1
\* Register(3) is z, the last register of [Value; 4] (program.rs:86).
Z == 3
\* Registers w, x, y, z are Register(0) .. Register(3).
Registers == 0..Z
\* Inputs are single digits: the range 0..=9 of new_input_value (program.rs:76).
MaxInputDigit == 9

(***************************************************************************)
(* Values (values.rs:35-59).                                               *)
(***************************************************************************)
Exact(v, n) == [tag |-> "Exact", vid |-> v, val |-> n]
InputValue(v, ordinal) == [tag |-> "Input", vid |-> v, val |-> ordinal]
Unknown(v) == [tag |-> "Unknown", vid |-> v, val |-> 0]

IsExact(value) == value.tag = "Exact"
IsExactOf(value, n) == value.tag = "Exact" /\ value.val = n

\* Value::vid
vid(value) == value.vid

\* A faulty variant of ValueEq: every pair is compared by identity.
ValueEqByVidOnly(l, r) == vid(l) = vid(r)

\* impl PartialEq for Value: two Exact values compare their integers,
\* every other pair compares identities.
ValueEq(l, r) ==
    IF IsExact(l) /\ IsExact(r) THEN l.val = r.val ELSE vid(l) = vid(r)

\* [Value; 4] == [Value; 4]: element-wise PartialEq.
RegistersEq(a, b) == \A r \in Registers : ValueEq(a[r], b[r])

(***************************************************************************)
(* Instructions (program.rs:104-171).                                      *)
(***************************************************************************)
Literal(n) == [kind |-> "Literal", v |-> n]
RegisterOp(r) == [kind |-> "Register", v |-> r]
NoOperand == [kind |-> "None", v |-> 0]

Instr(o, d, opnd) == [op |-> o, dst |-> d, operand |-> opnd]
Inp(d) == Instr("Input", d, NoOperand)

BinaryOps == {"Add", "Mul", "Div", "Mod", "Equal"}

\* Instruction::destination
destination(instr) == instr.dst
\* Instruction::operand
operand(instr) == instr.operand

IsInput(instr) == instr.op = "Input"

(***************************************************************************)
(* i64 arithmetic of the exact case (optimization.rs:39-52).  The          *)
(* integers of the bounded sequences below stay within a few units of      *)
(* zero, far from the limits of i64, so no operation here overflows.       *)
(***************************************************************************)
Abs(n) == IF n < 0 THEN -n ELSE n

\* Rust's `/` on i64: the quotient truncated toward zero (b # 0).
TruncDiv(a, b) ==
    IF (a < 0) = (b < 0) THEN Abs(a) \div Abs(b) ELSE -(Abs(a) \div Abs(b))

\* Rust's `%` on i64: the remainder carries the sign of the dividend (b # 0).
TruncRem(a, b) == a - b * TruncDiv(a, b)

exact_value(op, left, right) ==
    CASE op = "Add" -> left + right
      [] op = "Mul" -> left * right
      [] op = "Div" -> TruncDiv(left, right)
      [] op = "Mod" -> TruncRem(left, right)
      [] op = "Equal" -> IF left = right THEN 1 ELSE 0

(***************************************************************************)
(* is_instruction_no_op (optimization.rs:92-109).                          *)
(***************************************************************************)
\* A faulty variant of is_instruction_no_op: the table without its Mod row.
is_instruction_no_op_without_mod(instr, left, right) ==
    \/ instr.op = "Add" /\ IsExactOf(right, 0)
    \/ instr.op = "Mul" /\ IsExactOf(left, 0)
    \/ instr.op = "Mul" /\ IsExactOf(right, 1)
    \/ instr.op = "Div" /\ IsExactOf(left, 0)
    \/ instr.op = "Div" /\ IsExactOf(right, 1)
    \/ /\ instr.op = "Equal" /\ IsExact(left) /\ IsExact(right)
       /\ LET sides_equal == left.val = right.val
          IN  (sides_equal /\ left.val = 1) \/ (~sides_equal /\ left.val = 0)

is_instruction_no_op(instr, left, right) ==
    \/ instr.op = "Add" /\ IsExactOf(right, 0)
    \/ instr.op = "Mul" /\ IsExactOf(left, 0)
    \/ instr.op = "Mul" /\ IsExactOf(right, 1)
    \/ instr.op = "Div" /\ IsExactOf(left, 0)
    \/ instr.op = "Div" /\ IsExactOf(right, 1)
    \/ instr.op = "Mod" /\ IsExact(left) /\ IsExact(right) /\ left.val < right.val
    \/ /\ instr.op = "Equal" /\ IsExact(left) /\ IsExact(right)
       /\ LET sides_equal == left.val = right.val
          IN  (sides_equal /\ left.val = 1) \/ (~sides_equal /\ left.val = 0)

(***************************************************************************)
(* UniqueIdMaker::make_new_id (unique_ids.rs:20-22, 28-36): the identity   *)
(* handed out is the counter, which then moves on by one.                  *)
(***************************************************************************)
\* A faulty variant of make_new_id: the counter is not moved on.
make_new_id_without_increment(next_id) == [id |-> next_id, next_id |-> next_id]

make_new_id(next_id) == [id |-> next_id, next_id |-> next_id + 1]

\* n calls of make_new_id in a row: the identities they return, in order,
\* and the counter afterwards.
RECURSIVE make_new_ids(_, _)
make_new_ids(next_id, n) ==
    IF n = 0 THEN [ids |-> << >>, next_id |-> next_id]
    ELSE LET new == make_new_id(next_id)
             rest == make_new_ids(new.next_id, n - 1)
         IN  [ids |-> << new.id >> \o rest.ids, next_id |-> rest.next_id]

(***************************************************************************)
(* evaluate_instruction (optimization.rs:13-89).  The result carries the   *)
(* value returned, the allocator's next identity afterwards, and whether   *)
(* the call panicked (i64 `/` and `%` panic on a zero divisor); minted     *)
(* lists the identities the call took from the allocator.                  *)
(***************************************************************************)
Returned(value, next_id) ==
    [value |-> value, next_id |-> next_id, panic |-> FALSE, minted |-> << >>]
Panicked(left, next_id) ==
    [value |-> left, next_id |-> next_id, panic |-> TRUE, minted |-> << >>]
\* A value built on new, the result of vid_maker.make_new_id().
ReturnedNew(value, new) ==
    [value |-> value, next_id |-> new.next_id, panic |-> FALSE,
     minted |-> << new.id >>]

\* A faulty variant of identical_operands_result: Modulo's arm copied from
\* Divide's.
identical_operands_result_all_one(op) == 1

\* Lines 57-76: the integer the evaluator returns for equal operands:
\* 1 for Divide, 0 for Modulo, 1 for Equal.
identical_operands_result(op) == IF op = "Mod" THEN 0 ELSE 1

\* A faulty variant of multiplies_by_zero: only the destination is looked at.
multiplies_by_zero_left_only(instr, left, right) ==
    instr.op = "Mul" /\ IsExactOf(left, 0)

\* Lines 79-80: a Multiply with Exact(0) on either side.
multiplies_by_zero(instr, left, right) ==
    instr.op = "Mul" /\ (IsExactOf(left, 0) \/ IsExactOf(right, 0))

\* A faulty variant of evaluate_instruction: a multiplication of a register
\* holding one gets no rule of its own.
evaluate_instruction_without_mul_one(next_id, instr, left, right) ==
    LET new == make_new_id(next_id) IN
    IF is_instruction_no_op(instr, left, right) THEN Returned(left, next_id)
    ELSE IF IsExactOf(left, 0) /\ instr.op = "Add" THEN Returned(right, next_id)
    ELSE IF IsExact(left) /\ IsExact(right) THEN
        IF instr.op \in {"Div", "Mod"} /\ right.val = 0
        THEN Panicked(left, next_id)
        ELSE ReturnedNew(Exact(new.id, exact_value(instr.op, left.val, right.val)),
                         new)
    ELSE IF ValueEq(left, right) /\ instr.op \in {"Div", "Mod", "Equal"} THEN
        ReturnedNew(Exact(new.id, identical_operands_result(instr.op)), new)
    ELSE IF multiplies_by_zero(instr, left, right) THEN
        ReturnedNew(Exact(new.id, 0), new)
    ELSE ReturnedNew(Unknown(new.id), new)

evaluate_instruction(next_id, instr, left, right) ==
    LET new == make_new_id(next_id) IN
    IF is_instruction_no_op(instr, left, right) THEN Returned(left, next_id)
    ELSE IF IsExactOf(left, 0) /\ instr.op = "Add" THEN Returned(right, next_id)
    ELSE IF IsExactOf(left, 1) /\ instr.op = "Mul" THEN Returned(right, next_id)
    ELSE IF IsExact(left) /\ IsExact(right) THEN
        IF instr.op \in {"Div", "Mod"} /\ right.val = 0
        THEN Panicked(left, next_id)
        ELSE ReturnedNew(Exact(new.id, exact_value(instr.op, left.val, right.val)),
                         new)
    ELSE IF ValueEq(left, right) /\ instr.op \in {"Div", "Mod", "Equal"} THEN
        ReturnedNew(Exact(new.id, identical_operands_result(instr.op)), new)
    ELSE IF multiplies_by_zero(instr, left, right) THEN
        ReturnedNew(Exact(new.id, 0), new)
    ELSE ReturnedNew(Unknown(new.id), new)

\* vid_maker_and_initial_registers (values.rs:77-88): four Exact(0) values
\* with the first four identities of a maker started at FirstVid.
initial_ids == make_new_ids(FirstVid, Cardinality(Registers))
initial_registers == [r \in Registers |-> Exact(initial_ids.ids[r + 1], 0)]
initial_next_id == initial_ids.next_id

(***************************************************************************)
(* constant_propagation (optimization.rs:111-140), one loop iteration.     *)
(* st is the loop state: registers, the allocator (next_id),               *)
(* next_input_id, the snapshots pushed so far (registers_after_instr),     *)
(* and two logs the code does not keep and the properties below read:      *)
(* the evaluator calls made (calls) and the identities make_new_id         *)
(* returned, in the order of the calls (issued).                           *)
(***************************************************************************)
NoCall == [evaluated |-> FALSE, left |-> Exact(UNDEFINED, 0),
           right |-> Exact(UNDEFINED, 0), result |-> Exact(UNDEFINED, 0),
           panicked |-> FALSE, before_id |-> 0, after_id |-> 0]

propagation_step(st, instr) ==
    IF IsInput(instr) THEN
        LET new == make_new_id(st.next_id)
            regs == [st.registers EXCEPT
                       ![destination(instr)] = InputValue(new.id, st.next_input_id)]
        IN  [st EXCEPT !.registers = regs,
                       !.next_id = new.next_id,
                       !.next_input_id = st.next_input_id + 1,
                       !.registers_after_instr = Append(@, regs),
                       !.calls = Append(@, NoCall),
                       !.issued = Append(@, new.id)]
    ELSE
        LET register_index == destination(instr)
            left == st.registers[register_index]
            lit == make_new_id(st.next_id)
            right == IF operand(instr).kind = "Literal"
                     THEN Exact(lit.id, operand(instr).v)
                     ELSE st.registers[operand(instr).v]
            nid == IF operand(instr).kind = "Literal" THEN lit.next_id ELSE st.next_id
            lit_ids == IF operand(instr).kind = "Literal" THEN << lit.id >> ELSE << >>
            ev == evaluate_instruction(nid, instr, left, right)
            regs == [st.registers EXCEPT ![register_index] = ev.value]
            call == [evaluated |-> TRUE, left |-> left, right |-> right,
                     result |-> ev.value, panicked |-> ev.panic,
                     before_id |-> nid, after_id |-> ev.next_id]
        IN  IF ev.panic
            THEN [st EXCEPT !.next_id = ev.next_id,
                            !.calls = Append(@, call),
                            !.issued = @ \o lit_ids \o ev.minted,
                            !.panic = TRUE]
            ELSE [st EXCEPT !.registers = regs,
                            !.next_id = ev.next_id,
                            !.registers_after_instr = Append(@, regs),
                            !.calls = Append(@, call),
                            !.issued = @ \o lit_ids \o ev.minted]

\* A faulty variant of propagate_from: a snapshot is pushed only when the
\* instruction changed the register file.
RECURSIVE propagate_from_skipping_unchanged(_, _, _)
propagate_from_skipping_unchanged(st, instrs, i) ==
    IF i > Len(instrs) \/ st.panic THEN st
    ELSE LET next == propagation_step(st, instrs[i])
             pushed == IF RegistersEq(st.registers, next.registers)
                       THEN [next EXCEPT !.registers_after_instr =
                                             st.registers_after_instr]
                       ELSE next
         IN  propagate_from_skipping_unchanged(pushed, instrs, i + 1)

RECURSIVE propagate_from(_, _, _)
propagate_from(st, instrs, i) ==
    IF i > Len(instrs) \/ st.panic THEN st
    ELSE propagate_from(propagation_step(st, instrs[i]), instrs, i + 1)

\* constant_propagation(vid_maker, starting_registers, instructions)
constant_propagation(next_id, starting, instrs) ==
    propagate_from([registers |-> starting, next_id |-> next_id,
                    next_input_id |-> 0, registers_after_instr |-> << >>,
                    calls |-> << >>, issued |-> << >>, panic |-> FALSE],
                   instrs, 1)

(***************************************************************************)
(* find_used_values (optimization.rs:224-314).  The loop walks the         *)
(* instructions from the last to the first; before(i) is the snapshot      *)
(* preceding instruction i (registers_before_instr, lines 235-236).        *)
(***************************************************************************)
registers_before(starting, after, i) == IF i = 1 THEN starting ELSE after[i - 1]

\* A faulty variant of used_by_instr: an Equal of two equal values is treated
\* as any other operation.
used_by_instr_without_eql_case(used_values, instr, registers_before_i, registers_after_i) ==
    LET source_value == registers_before_i[destination(instr)]
        has_operand_register == operand(instr).kind = "Register"
        operand_value ==
            IF has_operand_register THEN registers_before_i[operand(instr).v]
            ELSE Exact(UNDEFINED, operand(instr).v)
        destination_value == registers_after_i[destination(instr)]
    IN  IF \/ instr.op = "Mul"
              /\ (IsExactOf(source_value, 0) \/ IsExactOf(operand_value, 0))
           \/ IsInput(instr)
        THEN {}
        ELSE IF ~ValueEq(destination_value, source_value)
                /\ vid(destination_value) \in used_values
        THEN {vid(source_value)}
             \cup (IF has_operand_register /\ ~IsExact(operand_value)
                   THEN {vid(operand_value)} ELSE {})
        ELSE {}

\* A faulty variant of used_by_instr: an operand register is marked whatever
\* its value.
used_by_instr_marking_exact_operands(used_values, instr, registers_before_i, registers_after_i) ==
    LET source_value == registers_before_i[destination(instr)]
        has_operand_register == operand(instr).kind = "Register"
        operand_value ==
            IF has_operand_register THEN registers_before_i[operand(instr).v]
            ELSE Exact(UNDEFINED, operand(instr).v)
        destination_value == registers_after_i[destination(instr)]
    IN  IF \/ instr.op = "Mul"
              /\ (IsExactOf(source_value, 0) \/ IsExactOf(operand_value, 0))
           \/ instr.op = "Equal" /\ ValueEq(source_value, operand_value)
           \/ IsInput(instr)
        THEN {}
        ELSE IF ~ValueEq(destination_value, source_value)
                /\ vid(destination_value) \in used_values
        THEN {vid(source_value)}
             \cup (IF has_operand_register THEN {vid(operand_value)} ELSE {})
        ELSE {}

\* The values one iteration adds to used_values (lines 244-310).
used_by_instr(used_values, instr, registers_before_i, registers_after_i) ==
    LET source_value == registers_before_i[destination(instr)]
        has_operand_register == operand(instr).kind = "Register"
        operand_value ==
            IF has_operand_register THEN registers_before_i[operand(instr).v]
            ELSE Exact(UNDEFINED, operand(instr).v)
        destination_value == registers_after_i[destination(instr)]
        special_case_mul_unused_source_values ==
            /\ instr.op = "Mul"
            /\ (IsExactOf(source_value, 0) \/ IsExactOf(operand_value, 0))
        special_case_eql_unused_source_values ==
            instr.op = "Equal" /\ ValueEq(source_value, operand_value)
    IN  IF special_case_mul_unused_source_values
           \/ special_case_eql_unused_source_values
           \/ IsInput(instr)
        THEN {}
        ELSE IF ~ValueEq(destination_value, source_value)
                /\ vid(destination_value) \in used_values
        THEN {vid(source_value)}
             \cup (IF has_operand_register /\ ~IsExact(operand_value)
                   THEN {vid(operand_value)} ELSE {})
        ELSE {}

RECURSIVE used_from(_, _, _, _, _)
used_from(used_values, starting, after, instrs, i) ==
    IF i < 1 THEN used_values
    ELSE used_from(used_values
                     \cup used_by_instr(used_values, instrs[i],
                                        registers_before(starting, after, i),
                                        after[i]),
                   starting, after, instrs, i - 1)

\* find_used_values(starting_registers, registers_after_instr, instructions);
\* the caller passes a non-empty snapshot sequence (line 233 unwraps last()).
find_used_values(starting, after, instrs) ==
    used_from({vid(after[Len(after)][Z])}, starting, after, instrs, Len(instrs))

(***************************************************************************)
(* Program::optimize (optimization.rs:200-221).  retained(...) is the      *)
(* test of line 211 for the instruction at index; optimize returns the     *)
(* indices pushed, in order, and new_program the instructions at them.     *)
(***************************************************************************)
\* A faulty variant of retained: the liveness half of the test forgotten.
retained_ignoring_use(starting, after, used, instrs, index) ==
    ~RegistersEq(registers_before(starting, after, index), after[index])

\* A faulty variant of retained: the register files are compared by the
\* identities they hold.
retained_comparing_identities(starting, after, used, instrs, index) ==
    LET registers == registers_before(starting, after, index)
        next_registers == after[index]
        is_no_op == \A r \in Registers : vid(registers[r]) = vid(next_registers[r])
        is_used_value == vid(next_registers[destination(instrs[index])]) \in used
    IN  ~is_no_op /\ is_used_value

retained(starting, after, used, instrs, index) ==
    LET registers == registers_before(starting, after, index)
        next_registers == after[index]
        is_no_op == RegistersEq(registers, next_registers)
        is_used_value == vid(next_registers[destination(instrs[index])]) \in used
    IN  ~is_no_op /\ is_used_value

RECURSIVE kept_from(_, _, _, _, _)
kept_from(starting, after, used, instrs, index) ==
    IF index > Len(instrs) THEN << >>
    ELSE (IF retained(starting, after, used, instrs, index)
          THEN << index >> ELSE << >>)
         \o kept_from(starting, after, used, instrs, index + 1)

InstrsAt(instrs, indices) == [k \in 1..Len(indices) |-> instrs[indices[k]]]

optimize(starting, after, used, instrs) ==
    InstrsAt(instrs, kept_from(starting, after, used, instrs, 1))

(***************************************************************************)
(* The whole run of Program::new followed by Program::optimize             *)
(* (optimization.rs:154-221) on one instruction sequence: the forward      *)
(* pass, the backward pass, the filter.  An empty sequence panics          *)
(* (first().unwrap() at line 178, last().unwrap() at line 233), and so     *)
(* does a forward pass that divides by an exact zero.  Program::new is     *)
(* unfinished in the source (todo!() at lines 169, 172 and 183-185); the   *)
(* model follows the calls it does make, in their order.                   *)
(***************************************************************************)
run_optimizer(instrs) ==
    IF instrs = << >> THEN [outcome |-> "panicked", program |-> << >>]
    ELSE LET fwd == constant_propagation(initial_next_id, initial_registers, instrs)
         IN  IF fwd.panic THEN [outcome |-> "panicked", program |-> << >>]
             ELSE LET used == find_used_values(initial_registers,
                                               fwd.registers_after_instr, instrs)
                  IN  [outcome |-> "ok",
                       program |-> optimize(initial_registers,
                                            fwd.registers_after_instr, used, instrs)]

(***************************************************************************)
(* The instruction sequences the model hands to the optimizer.             *)
(***************************************************************************)
W == 0
X == 1

Pool ==
    { Inp(W), Inp(Z),
      Instr("Add", Z, Literal(1)),  Instr("Add", W, Literal(1)),
      Instr("Add", W, Literal(-1)), Instr("Add", Z, Literal(0)),
      Instr("Add", Z, RegisterOp(W)), Instr("Add", X, RegisterOp(W)),
      Instr("Mul", W, Literal(0)),  Instr("Mul", Z, RegisterOp(W)),
      Instr("Mul", Z, Literal(0)),  Instr("Mul", W, RegisterOp(Z)),
      Instr("Div", W, RegisterOp(W)), Instr("Div", Z, Literal(0)),
      Instr("Div", Z, Literal(1)),  Instr("Div", W, Literal(2)),
      Instr("Mod", W, RegisterOp(W)), Instr("Mod", W, Literal(1)),
      Instr("Mod", Z, Literal(0)),  Instr("Mod", W, Literal(2)),
      Instr("Mod", Z, Literal(-2)),
      Instr("Equal", W, RegisterOp(W)), Instr("Equal", W, Literal(-1)),
      Instr("Equal", Z, RegisterOp(W)), Instr("Equal", Z, RegisterOp(Z)) }

Programs == UNION { [1..n -> Pool] : n \in 1..MaxLen }

(***************************************************************************)
(* State.                                                                  *)
(***************************************************************************)
VARIABLES
    instructions,           \* Program.instructions: the sequence being optimized
    phase,                  \* how far the run has got
    starting_registers,     \* Program.starting_registers
    vid_next,               \* vid_maker.next_id
    registers_after_instr,  \* Program.registers_after_instr
    calls,                  \* log of the evaluator calls of the forward pass
    issued,                 \* log of the identities vid_maker has returned
    value_used,             \* Program.value_used
    kept,                   \* indices of the instructions optimize pushed
    new_program,            \* the sequence optimize returns
    rerun                   \* the optimizer run again on new_program

vars == << instructions, phase, starting_registers, vid_next,
           registers_after_instr, calls, issued, value_used, kept, new_program,
           rerun >>

NotRun == [outcome |-> "none", program |-> << >>]

Init ==
    /\ instructions \in Programs
    /\ phase = "new"
    /\ starting_registers = initial_registers
    /\ vid_next = initial_next_id
    /\ registers_after_instr = << >>
    /\ calls = << >>
    /\ issued = initial_ids.ids
    /\ value_used = {}
    /\ kept = << >>
    /\ new_program = << >>
    /\ rerun = NotRun

\* Program::new, line 174-175: the forward pass.
ConstantPropagation ==
    /\ phase = "new"
    /\ LET fwd == constant_propagation(vid_next, starting_registers, instructions)
       IN  /\ phase' = IF fwd.panic THEN "panicked" ELSE "propagated"
           /\ vid_next' = fwd.next_id
           /\ registers_after_instr' = fwd.registers_after_instr
           /\ calls' = fwd.calls
           /\ issued' = issued \o fwd.issued
    /\ UNCHANGED << instructions, starting_registers, value_used, kept,
                    new_program, rerun >>

\* Program::new, line 188-189: the backward pass.
FindUsedValues ==
    /\ phase = "propagated"
    /\ value_used' = find_used_values(starting_registers, registers_after_instr,
                                      instructions)
    /\ phase' = "analyzed"
    /\ UNCHANGED << instructions, starting_registers, vid_next,
                    registers_after_instr, calls, issued, kept, new_program, rerun >>

\* Program::optimize.
Optimize ==
    /\ phase = "analyzed"
    /\ kept' = kept_from(starting_registers, registers_after_instr, value_used,
                         instructions, 1)
    /\ new_program' = optimize(starting_registers, registers_after_instr,
                               value_used, instructions)
    /\ phase' = "optimized"
    /\ UNCHANGED << instructions, starting_registers, vid_next,
                    registers_after_instr, calls, issued, value_used, rerun >>

\* A second run of the optimizer, on the sequence the first one returned.
Reoptimize ==
    /\ phase = "optimized"
    /\ rerun' = run_optimizer(new_program)
    /\ phase' = "reoptimized"
    /\ UNCHANGED << instructions, starting_registers, vid_next,
                    registers_after_instr, calls, issued, value_used, kept,
                    new_program >>

Next == ConstantPropagation \/ FindUsedValues \/ Optimize \/ Reoptimize

Spec == Init /\ [][Next]_vars

(***************************************************************************)
(* Concrete execution of the instruction language, against which the       *)
(* optimizer's answers are judged: registers hold integers, an Input       *)
(* takes the next digit, Divide truncates toward zero, Modulo is the       *)
(* remainder of that division, and a zero divisor stops the run.           *)
(***************************************************************************)
Quotient(a, b) ==
    CHOOSE q \in (-Abs(a))..Abs(a) :
        LET r == a - q * b
        IN  Abs(r) < Abs(b) /\ (r = 0 \/ (r < 0) = (a < 0))

Remainder(a, b) == a - b * Quotient(a, b)

ConcreteOp(op, a, b) ==
    CASE op = "Add" -> a + b
      [] op = "Mul" -> a * b
      [] op = "Div" -> Quotient(a, b)
      [] op = "Mod" -> Remainder(a, b)
      [] op = "Equal" -> IF a = b THEN 1 ELSE 0

RECURSIVE ConcreteFrom(_, _, _, _, _)
ConcreteFrom(regs, instrs, inputs, consumed, i) ==
    IF i > Len(instrs) THEN [crashed |-> FALSE, regs |-> regs]
    ELSE LET instr == instrs[i] IN
         IF IsInput(instr) THEN
             ConcreteFrom([regs EXCEPT ![instr.dst] = inputs[consumed + 1]],
                          instrs, inputs, consumed + 1, i + 1)
         ELSE LET a == regs[instr.dst]
                  b == IF instr.operand.kind = "Literal" THEN instr.operand.v
                       ELSE regs[instr.operand.v]
              IN  IF instr.op \in {"Div", "Mod"} /\ b = 0
                  THEN [crashed |-> TRUE, regs |-> regs]
                  ELSE ConcreteFrom([regs EXCEPT ![instr.dst] = ConcreteOp(instr.op, a, b)],
                                    instrs, inputs, consumed, i + 1)

ConcreteRun(instrs, inputs) ==
    ConcreteFrom([r \in Registers |-> 0], instrs, inputs, 0, 1)

NumInputs(instrs) == Len(SelectSeq(instrs, IsInput))

\* The input vectors of a sequence: one digit per Input instruction.
InputVectors(instrs) == [1..NumInputs(instrs) -> 0..MaxInputDigit]

Range(seq) == { seq[k] : k \in 1..Len(seq) }

Optimized == phase \in {"optimized", "reoptimized"}

(***************************************************************************)
(* C1.                                                                     *)
(***************************************************************************)
\* C1 (Soundness): for every input vector of digits on which the original
\* sequence runs without a zero divisor, the original and the optimized
\* sequence, run from all-zero registers on that vector, end with the same
\* value in register z.
C1_Soundness ==
    Optimized =>
        \A inputs \in InputVectors(instructions) :
            LET original == ConcreteRun(instructions, inputs)
                optimized == ConcreteRun(new_program, inputs)
            IN  ~original.crashed =>
                    /\ ~optimized.crashed
                    /\ optimized.regs[Z] = original.regs[Z]

(***************************************************************************)
(* C2.                                                                     *)
(***************************************************************************)
\* C2 (Input-count preservation): every Input instruction of the original
\* sequence is retained, so the Input instructions of the optimized
\* sequence are those of the original, in the same order.
C2_InputsPreserved ==
    Optimized =>
        /\ \A i \in 1..Len(instructions) :
               IsInput(instructions[i]) => i \in Range(kept)
        /\ SelectSeq(new_program, IsInput) = SelectSeq(instructions, IsInput)

(***************************************************************************)
(* C3.                                                                     *)
(***************************************************************************)
\* C3 (Idempotence): running the whole optimization on the optimized
\* sequence returns that sequence again.  The empty sequence, on which the
\* optimizer cannot be run at all, is taken to be its own optimization.
C3_Idempotent ==
    (phase = "reoptimized" /\ new_program # << >>) =>
        (rerun.outcome = "ok" /\ rerun.program = new_program)

(***************************************************************************)
(* The no-op table as the specification words it, on the destination's     *)
(* current value (left) and the resolved operand (right).                  *)
(***************************************************************************)
NoOpTable(op, left, right) ==
    \/ op = "Add" /\ right.tag = "Exact" /\ right.val = 0
    \/ op = "Mul" /\ left.tag = "Exact" /\ left.val = 0
    \/ op = "Mul" /\ right.tag = "Exact" /\ right.val = 1
    \/ op = "Div" /\ left.tag = "Exact" /\ left.val = 0
    \/ op = "Div" /\ right.tag = "Exact" /\ right.val = 1
    \/ /\ op = "Mod" /\ left.tag = "Exact" /\ right.tag = "Exact"
       /\ left.val < right.val
    \/ /\ op = "Equal" /\ left.tag = "Exact" /\ right.tag = "Exact"
       /\ \/ left.val = right.val /\ left.val = 1
          \/ left.val # right.val /\ left.val = 0

\* The snapshot before instruction i: the preceding snapshot, or the
\* starting one for the first instruction.
Before(i) == IF i = 1 THEN starting_registers ELSE registers_after_instr[i - 1]

\* Instruction i was evaluated (it is not an Input) and matched the table.
TableNoOpAt(i) ==
    /\ calls[i].evaluated
    /\ NoOpTable(instructions[i].op, calls[i].left, calls[i].right)

\* The value instruction i leaves in its destination is in the live set.
DestinationLive(i) ==
    registers_after_instr[i][instructions[i].dst].vid \in value_used

\* sub is full with some elements left out, none moved and none changed.
IsSubsequence(sub, full) ==
    \E at \in [1..Len(sub) -> 1..Len(full)] :
        /\ \A j, k \in 1..Len(sub) : j < k => at[j] < at[k]
        /\ \A k \in 1..Len(sub) : sub[k] = full[at[k]]

(***************************************************************************)
(* C4.                                                                     *)
(***************************************************************************)
\* C4 (Monotonic shrink): the optimized sequence is a subsequence of the
\* original, in order and with every kept instruction unchanged, so it is
\* no longer than the original; and the two have the same length only when
\* no instruction is a no-op (by the table, or by leaving the register file
\* as it was) and every instruction's destination value is in the live set.
C4_MonotonicShrink ==
    Optimized =>
        /\ IsSubsequence(new_program, instructions)
        /\ Len(new_program) <= Len(instructions)
        /\ Len(new_program) = Len(instructions) =>
               \A i \in 1..Len(instructions) :
                   /\ ~TableNoOpAt(i)
                   /\ Before(i) # registers_after_instr[i]
                   /\ DestinationLive(i)

\* An optimization of two or more instructions that drops nothing.
C4_Witness ==
    /\ phase = "optimized"
    /\ Len(instructions) >= 2
    /\ Len(new_program) = Len(instructions)

(***************************************************************************)
(* The evaluator calls of the forward pass.  calls[i] is the call made     *)
(* for instruction i; a call that panicked is the last one and has no      *)
(* snapshot.                                                               *)
(***************************************************************************)
Evaluations == { i \in 1..Len(calls) : calls[i].evaluated }

BothExact(i) == calls[i].left.tag = "Exact" /\ calls[i].right.tag = "Exact"

(***************************************************************************)
(* C5.                                                                     *)
(***************************************************************************)
\* C5 (No-op table exactness): whenever a non-Input instruction matches the
\* no-op table on the destination's current value and the resolved operand,
\* the evaluator returns that current value itself, mints no identity, the
\* snapshot after the instruction is the snapshot before it, and the
\* instruction is not in the optimized sequence.
C5_NoOpTableExact ==
    \A i \in Evaluations :
        NoOpTable(instructions[i].op, calls[i].left, calls[i].right) =>
            /\ ~calls[i].panicked
            /\ calls[i].result = calls[i].left
            /\ calls[i].after_id = calls[i].before_id
            /\ i <= Len(registers_after_instr)
            /\ registers_after_instr[i] = Before(i)
            /\ Optimized => i \notin Range(kept)

\* An optimization in which a table no-op acted on a value that is not
\* Exact (such as `add z 0` or `div z 1` after `inp z`), and one in which
\* the Modulo row applied.
C5_Witness ==
    /\ phase = "optimized"
    /\ \E i \in Evaluations :
           /\ NoOpTable(instructions[i].op, calls[i].left, calls[i].right)
           /\ calls[i].left.tag # "Exact"
    /\ \E i \in Evaluations :
           /\ NoOpTable(instructions[i].op, calls[i].left, calls[i].right)
           /\ instructions[i].op = "Mod"

(***************************************************************************)
(* Ranges of possible values (program.rs:18, 59-82): new_exact_value       *)
(* records n..=n, new_input_value records 0..=9, and an Unknown minted by  *)
(* the evaluator of optimization.rs, which records no range, has the       *)
(* fully unknown one, i64::MIN..=i64::MAX.                                 *)
(***************************************************************************)
FULLY_UNKNOWN_RANGE == [full |-> TRUE, lo |-> 0, hi |-> 0]

value_range(value) ==
    CASE value.tag = "Exact" -> [full |-> FALSE, lo |-> value.val, hi |-> value.val]
      [] value.tag = "Input" -> [full |-> FALSE, lo |-> 0, hi |-> MaxInputDigit]
      [] OTHER -> FULLY_UNKNOWN_RANGE

\* No integer lies in both ranges.
RangesDisjoint(a, b) ==
    /\ ~a.full
    /\ ~b.full
    /\ (a.hi < b.lo \/ b.hi < a.lo)

(***************************************************************************)
(* C6.                                                                     *)
(***************************************************************************)
\* C6 (Equality with disjoint ranges): whenever an Equal instruction
\* compares two values whose ranges of possible values have no integer in
\* common, the evaluator returns an Exact value with integer 0.
C6_DisjointRangesEqualZero ==
    \A i \in Evaluations :
        ( /\ instructions[i].op = "Equal"
          /\ RangesDisjoint(value_range(calls[i].left), value_range(calls[i].right)) )
        => /\ ~calls[i].panicked
           /\ calls[i].result.tag = "Exact"
           /\ calls[i].result.val = 0

(***************************************************************************)
(* C7.                                                                     *)
(***************************************************************************)
\* C7 (Exact evaluation): whenever a non-Input instruction is evaluated on
\* two Exact operands, the divisor of a Divide or Modulo not being zero,
\* the evaluator returns an Exact value whose integer is the concrete
\* result of the operation on the two integers.
C7_ExactEvaluation ==
    \A i \in Evaluations :
        ( /\ BothExact(i)
          /\ instructions[i].op \in {"Div", "Mod"} => calls[i].right.val # 0 )
        => /\ ~calls[i].panicked
           /\ calls[i].result.tag = "Exact"
           /\ calls[i].result.val =
                  ConcreteOp(instructions[i].op, calls[i].left.val, calls[i].right.val)

(***************************************************************************)
(* C8.                                                                     *)
(***************************************************************************)
\* C8 (Division by exact zero fails loudly): whenever a Divide or Modulo is
\* evaluated on two Exact operands with divisor 0, the evaluator panics
\* instead of returning a value, whatever the dividend.
C8_ZeroDivisorPanics ==
    \A i \in Evaluations :
        ( /\ instructions[i].op \in {"Div", "Mod"}
          /\ BothExact(i)
          /\ calls[i].right.val = 0 )
        => calls[i].panicked

(***************************************************************************)
(* C9.                                                                     *)
(***************************************************************************)
\* C9 (Identical-identity rule): whenever Divide, Modulo or Equal is
\* evaluated on operands that are not both Exact and carry the same
\* identity, the evaluator returns Exact 1 for Divide, Exact 0 for Modulo
\* and Exact 1 for Equal.
C9_IdenticalIdentity ==
    \A i \in Evaluations :
        ( /\ instructions[i].op \in {"Div", "Mod", "Equal"}
          /\ ~BothExact(i)
          /\ calls[i].left.vid = calls[i].right.vid )
        => /\ ~calls[i].panicked
           /\ calls[i].result.tag = "Exact"
           /\ calls[i].result.val =
                  (CASE instructions[i].op = "Div" -> 1
                     [] instructions[i].op = "Mod" -> 0
                     [] instructions[i].op = "Equal" -> 1)

\* A run that compared two different registers holding one input value:
\* z after `add z w`, against w.
C9_Witness ==
    /\ phase = "propagated"
    /\ \E i \in Evaluations :
           /\ instructions[i].op = "Equal"
           /\ instructions[i].operand = RegisterOp(W)
           /\ instructions[i].dst = Z
           /\ calls[i].left.tag = "Input"
           /\ calls[i].left.vid = calls[i].right.vid

(***************************************************************************)
(* C10.                                                                    *)
(***************************************************************************)
\* C10 (Multiply by a provably-zero operand): whenever a Multiply is
\* evaluated with Exact 0 as the destination's current value or as the
\* resolved operand, the evaluator returns an Exact value with integer 0.
C10_MultiplyByZero ==
    \A i \in Evaluations :
        ( /\ instructions[i].op = "Mul"
          /\ \/ calls[i].left.tag = "Exact" /\ calls[i].left.val = 0
             \/ calls[i].right.tag = "Exact" /\ calls[i].right.val = 0 )
        => /\ ~calls[i].panicked
           /\ calls[i].result.tag = "Exact"
           /\ calls[i].result.val = 0

\* A run that multiplied an Unknown value by Exact 0.
C10_Witness ==
    /\ phase = "propagated"
    /\ \E i \in Evaluations :
           /\ instructions[i].op = "Mul"
           /\ calls[i].left.tag = "Unknown"
           /\ calls[i].right.tag = "Exact" /\ calls[i].right.val = 0

(***************************************************************************)
(* C11.                                                                    *)
(***************************************************************************)
\* C11 (Identity allocator): every identity make_new_id returns is strictly
\* greater than every identity it returned before (a maker started at 1
\* returns 1, then 2, ...), so none is issued twice and none is the
\* reserved identity 0; and the identities of the initial registers, the
\* inputs, the literals and the computed results of the forward pass are
\* pairwise distinct.  Stated up to the end of the forward pass: the later
\* steps leave the allocator, the snapshots and the call log unchanged.
C11_IdentityAllocator ==
    phase \in {"new", "propagated", "panicked"} =>
    /\ \A k \in 1..(Len(issued) - 1) : issued[k] < issued[k + 1]
    /\ \A k \in 1..Len(issued) : issued[k] = FirstVid + k - 1 /\ issued[k] # UNDEFINED
    /\ \A k \in 1..Len(issued) : issued[k] < vid_next
    /\ \A r \in Registers : starting_registers[r].vid \in Range(issued)
    /\ \A r, q \in Registers :
           r # q => starting_registers[r].vid # starting_registers[q].vid
    /\ \A i \in 1..Len(registers_after_instr) :
           /\ registers_after_instr[i][instructions[i].dst].vid \in Range(issued)
           /\ IsInput(instructions[i]) =>
                  \A r \in Registers :
                      Before(i)[r].vid # registers_after_instr[i][instructions[i].dst].vid
    /\ \A i \in Evaluations :
           /\ calls[i].right.vid \in Range(issued)
           /\ instructions[i].operand.kind = "Literal" =>
                  \A r \in Registers : Before(i)[r].vid # calls[i].right.vid
           /\ calls[i].after_id # calls[i].before_id =>
                  /\ calls[i].result.vid # calls[i].right.vid
                  /\ \A r \in Registers : Before(i)[r].vid # calls[i].result.vid

\* A forward pass that minted identities for an input, for a literal and
\* for a computed result.
C11_Witness ==
    /\ phase = "propagated"
    /\ \E i \in 1..Len(instructions) : IsInput(instructions[i])
    /\ \E i \in Evaluations :
           /\ instructions[i].operand.kind = "Literal"
           /\ calls[i].after_id # calls[i].before_id

(***************************************************************************)
(* The values of a run: those of the starting registers, of the snapshots  *)
(* and of the evaluator calls, and the literals find_used_values wraps     *)
(* with the reserved identity.  Value is a public enum, so the equality    *)
(* is also asked about values of the other variants under the identities   *)
(* seen.                                                                   *)
(***************************************************************************)
ValuesSeen ==
    { starting_registers[r] : r \in Registers }
    \cup { registers_after_instr[i][r] :
             i \in 1..Len(registers_after_instr), r \in Registers }
    \cup UNION { { calls[i].left, calls[i].right, calls[i].result } :
                   i \in Evaluations }
    \cup { Exact(UNDEFINED, instructions[i].operand.v) :
             i \in { j \in 1..Len(instructions) :
                       instructions[j].operand.kind = "Literal" } }

OtherVariants(value) ==
    { Exact(value.vid, n) : n \in {0, 1} }
    \cup { InputValue(value.vid, 0), Unknown(value.vid) }

\* ValueEq answers for a and b as the rule of the equality says.
FollowsEqualityRule(a, b) ==
    IF a.tag = "Exact" /\ b.tag = "Exact"
    THEN ValueEq(a, b) = (a.val = b.val)
    ELSE ValueEq(a, b) = (a.vid = b.vid)

(***************************************************************************)
(* C12.                                                                    *)
(***************************************************************************)
\* C12 (Value equality): two Exact values are equal exactly when their
\* integers are equal, whatever their identities; every other pair of
\* values is equal exactly when the two identities are equal.  Stated of
\* the values of a run whose backward pass has finished.
C12_ValueEquality ==
    phase = "analyzed" =>
        \A a \in ValuesSeen :
            /\ \A b \in ValuesSeen : FollowsEqualityRule(a, b)
            /\ \A b \in OtherVariants(a) :
                   FollowsEqualityRule(a, b) /\ FollowsEqualityRule(b, a)

\* The backward pass has compared, for an Equal, two Exact values with one
\* integer and two identities.
C12_Witness ==
    /\ phase = "analyzed"
    /\ \E i \in Evaluations :
           /\ instructions[i].op = "Equal"
           /\ BothExact(i)
           /\ calls[i].left.val = calls[i].right.val
           /\ calls[i].left.vid # calls[i].right.vid

(***************************************************************************)
(* Program points: point 0 is the start, point p the state after the       *)
(* first p instructions.                                                   *)
(***************************************************************************)
Points == 0..Len(registers_after_instr)

\* The snapshot the forward pass holds for point p.
SnapshotAt(p) == IF p = 0 THEN starting_registers ELSE registers_after_instr[p]

\* The concrete registers at point p of a run on inputs.
ConcreteAt(p, inputs) == ConcreteRun(SubSeq(instructions, 1, p), inputs).regs

(***************************************************************************)
(* C13.                                                                    *)
(***************************************************************************)
\* C13 (Shared identity means same value): on every input vector on which
\* the sequence runs without a zero divisor, two register slots of the
\* starting snapshot or of the snapshots of the forward pass that carry one
\* identity hold one concrete integer at their program points.
C13_SharedIdentitySameValue ==
    phase = "propagated" =>
        \A inputs \in InputVectors(instructions) :
            ~ConcreteRun(instructions, inputs).crashed =>
                \A p, q \in Points : \A r1, r2 \in Registers :
                    SnapshotAt(p)[r1].vid = SnapshotAt(q)[r2].vid =>
                        ConcreteAt(p, inputs)[r1] = ConcreteAt(q, inputs)[r2]

(***************************************************************************)
(* C14.                                                                    *)
(***************************************************************************)
\* Instruction i multiplies by an exact zero a destination that is not
\* already an exact zero.
ZeroingMultiply(i) ==
    /\ calls[i].evaluated
    /\ instructions[i].op = "Mul"
    /\ calls[i].right.tag = "Exact" /\ calls[i].right.val = 0
    /\ ~(calls[i].left.tag = "Exact" /\ calls[i].left.val = 0)

\* Register r still holds at point p the value instruction i left in it.
HoldsResultOf(i, r, p) == \A q \in i..p : SnapshotAt(q)[r].vid = calls[i].result.vid

\* Instruction j reads register r: as the destination of an operation or as
\* its register operand.
Reads(j, r) ==
    /\ instructions[j].op # "Input"
    /\ \/ instructions[j].dst = r
       \/ instructions[j].operand.kind = "Register" /\ instructions[j].operand.v = r

\* The zero instruction i leaves in its destination is observed: a retained
\* later instruction reads it before it is overwritten, or it is the z of the
\* end of the program.
ZeroObserved(i) ==
    LET r == instructions[i].dst
    IN  \/ \E j \in (i + 1)..Len(instructions) :
               j \in Range(kept) /\ HoldsResultOf(i, r, j - 1) /\ Reads(j, r)
        \/ r = Z /\ HoldsResultOf(i, r, Len(instructions))

\* C14 (Retained multiply-by-zero): a multiplication by an exact zero that
\* changes its destination to Exact(0) and whose zero is observed afterwards
\* (read by a later retained instruction before the register is overwritten,
\* or left in z at the end) is in the optimized sequence.
C14_RetainedMultiplyByZero ==
    Optimized =>
        \A i \in Evaluations : ZeroingMultiply(i) /\ ZeroObserved(i) => i \in Range(kept)

(***************************************************************************)
(* C15.                                                                    *)
(***************************************************************************)
\* The value-equality relation, stated on the records.
EqualValues(a, b) ==
    IF a.tag = "Exact" /\ b.tag = "Exact" THEN a.val = b.val ELSE a.vid = b.vid

\* The live set of the backward pass once it has walked the instructions
\* from the last down to instruction i.
RECURSIVE LiveDownTo(_)
LiveDownTo(i) ==
    IF i > Len(instructions) THEN {SnapshotAt(Len(instructions))[Z].vid}
    ELSE LET later == LiveDownTo(i + 1)
         IN  later \cup used_by_instr(later, instructions[i], Before(i),
                                      registers_after_instr[i])

\* Instruction i compares a register with itself.
CompareWithSelf(i) ==
    /\ instructions[i].op = "Equal"
    /\ instructions[i].operand.kind = "Register"
    /\ instructions[i].operand.v = instructions[i].dst

\* C15 (Compare-with-self): `eql r r` leaves in r an Exact value with integer
\* 1 whatever r held, and the backward pass adds no identity to the live set
\* for it, nor for any other Equal whose source and operand values are equal.
C15_CompareWithSelf ==
    phase = "analyzed" =>
        /\ value_used = LiveDownTo(1)
        /\ \A i \in Evaluations :
              /\ CompareWithSelf(i) =>
                    LET after == registers_after_instr[i][instructions[i].dst]
                    IN  after.tag = "Exact" /\ after.val = 1
              /\ instructions[i].op = "Equal"
                    /\ EqualValues(calls[i].left, calls[i].right)
                 => LiveDownTo(i) = LiveDownTo(i + 1)

\* An input is compared with itself and the resulting 1 is live.
C15_Witness ==
    /\ phase = "analyzed"
    /\ \E i \in Evaluations :
          /\ CompareWithSelf(i)
          /\ calls[i].left.tag = "Input"
          /\ DestinationLive(i)
          /\ ~(calls[i].left.vid \in value_used)

(***************************************************************************)
(* C16.                                                                    *)
(***************************************************************************)
\* The operand of instruction i as the backward pass sees it: the value the
\* operand register held before the instruction, or the literal.
OperandBefore(i) ==
    IF instructions[i].operand.kind = "Register"
    THEN Before(i)[instructions[i].operand.v]
    ELSE [tag |-> "Exact", vid |-> UNDEFINED, val |-> instructions[i].operand.v]

IsExactZero(value) == value.tag = "Exact" /\ value.val = 0

\* Instructions for which the rule adds nothing.
Exempt(i) ==
    LET pre == Before(i)[instructions[i].dst]
    IN  \/ instructions[i].op = "Input"
        \/ instructions[i].op = "Mul"
              /\ (IsExactZero(pre) \/ IsExactZero(OperandBefore(i)))
        \/ instructions[i].op = "Equal" /\ EqualValues(pre, OperandBefore(i))

\* What the rule adds for instruction i to the set live gathered from the
\* later instructions.
AddedByRule(live, i) ==
    LET pre  == Before(i)[instructions[i].dst]
        post == registers_after_instr[i][instructions[i].dst]
    IN  IF ~Exempt(i) /\ post.vid \in live /\ ~EqualValues(post, pre)
        THEN {pre.vid}
             \cup (IF /\ instructions[i].operand.kind = "Register"
                      /\ OperandBefore(i).tag # "Exact"
                   THEN {OperandBefore(i).vid} ELSE {})
        ELSE {}

RECURSIVE LiveRule(_)
LiveRule(i) ==
    IF i > Len(instructions) THEN {SnapshotAt(Len(instructions))[Z].vid}
    ELSE LET later == LiveRule(i + 1) IN later \cup AddedByRule(later, i)

\* C16 (Liveness rule): the live set of the backward pass is the set built
\* from the identity of z in the final snapshot by walking the instructions
\* from last to first, adding nothing for an Input, a Multiply with an
\* Exact(0) source or operand, or an Equal of equal values, and otherwise,
\* when the destination's new identity is live and its value changed, adding
\* the destination's old identity and the identity of a non-Exact operand
\* register; an Exact operand register is never added as an operand.
C16_LivenessRule ==
    phase = "analyzed" =>
        /\ value_used = LiveRule(1)
        /\ \A i \in 1..Len(instructions) :
              /\ instructions[i].operand.kind = "Register"
              /\ OperandBefore(i).tag = "Exact"
              /\ OperandBefore(i).vid # Before(i)[instructions[i].dst].vid
              => ~(OperandBefore(i).vid \in LiveDownTo(i) \ LiveDownTo(i + 1))

\* An instruction with a non-Exact operand register changed a live
\* destination, and both its source and its operand were added.
C16_Witness ==
    /\ phase = "analyzed"
    /\ \E i \in Evaluations :
          /\ instructions[i].operand.kind = "Register"
          /\ calls[i].right.tag # "Exact"
          /\ calls[i].right.vid # calls[i].left.vid
          /\ DestinationLive(i)
          /\ {calls[i].left.vid, calls[i].right.vid} \subseteq value_used

(***************************************************************************)
(* C17.                                                                    *)
(***************************************************************************)
\* The register file before instruction i equals the one after it.
FileUnchanged(i) ==
    \A r \in Registers : EqualValues(Before(i)[r], registers_after_instr[i][r])

\* C17 (Retention rule for non-Input instructions): a non-Input instruction
\* is in the optimized sequence exactly when it does not match the no-op
\* table and the identity its destination holds after it is live; the
\* filter's test, equality of the register files before and after, agrees
\* with the no-op table.
C17_RetentionRule ==
    Optimized =>
        \A i \in Evaluations :
            /\ i \in Range(kept) <=> (~TableNoOpAt(i) /\ DestinationLive(i))
            /\ FileUnchanged(i) <=> TableNoOpAt(i)

\* Both values of instruction i are exact and the exact result is the
\* integer the destination already held.
ExactResultUnchanged(i) ==
    /\ calls[i].evaluated
    /\ BothExact(i)
    /\ ~calls[i].panicked
    /\ calls[i].result.val = calls[i].left.val

\* C17 as amended: a non-Input instruction is in the optimized sequence
\* exactly when the register file after it differs from the one before it
\* and the identity its destination holds after it is live; the file is
\* unchanged for every instruction that matches the no-op table, and
\* otherwise only when both values are exact and the exact result is the
\* integer the destination already held.
C17_RetentionRuleAmended ==
    Optimized =>
        \A i \in Evaluations :
            /\ i \in Range(kept) <=> (~FileUnchanged(i) /\ DestinationLive(i))
            /\ FileUnchanged(i) <=> (TableNoOpAt(i) \/ ExactResultUnchanged(i))

\* A live instruction outside the no-op table left the register file
\* unchanged and was dropped.
C17_Witness ==
    /\ Optimized
    /\ \E i \in Evaluations :
          /\ ~TableNoOpAt(i)
          /\ FileUnchanged(i)
          /\ DestinationLive(i)
          /\ ~(i \in Range(kept))

(***************************************************************************)
(* C18.                                                                    *)
(***************************************************************************)
\* The forward pass has run to its end.
Propagated == phase \in {"propagated", "analyzed", "optimized", "reoptimized"}

\* C18 (Frame of a forward step): the forward pass records one snapshot per
\* instruction, also for instructions that change nothing, and in the
\* snapshot of an instruction the three registers other than its destination
\* hold the values and identities of the preceding snapshot (the starting
\* snapshot for the first instruction).
C18_ForwardFrame ==
    Propagated =>
        /\ Len(registers_after_instr) = Len(instructions)
        /\ \A r \in Registers :
              starting_registers[r] = [tag |-> "Exact", vid |-> FirstVid + r, val |-> 0]
        /\ \A i \in 1..Len(instructions) :
              \A r \in Registers \ {instructions[i].dst} :
                  registers_after_instr[i][r] = Before(i)[r]

\* A run of three instructions in which one changed nothing and another
\* wrote a register that held a value made earlier in the run.
C18_Witness ==
    /\ phase = "propagated"
    /\ Len(instructions) = 3
    /\ \E i \in 1..3 : registers_after_instr[i] = Before(i)
    /\ \E i \in 2..3 : \E r \in Registers \ {instructions[i].dst} :
          /\ registers_after_instr[i][instructions[i].dst] # Before(i)[instructions[i].dst]
          /\ Before(i)[r] # starting_registers[r]

(***************************************************************************)
(* C19.                                                                    *)
(***************************************************************************)
IsExactOne(value) == value.tag = "Exact" /\ value.val = 1

\* The evaluator call of instruction i returned without minting.
NothingMinted(i) == calls[i].after_id = calls[i].before_id

\* Instruction i multiplies a destination holding Exact(1) by an operand
\* that is not Exact(1).
MultipliesOne(i) ==
    /\ instructions[i].op = "Mul"
    /\ IsExactOne(calls[i].left)
    /\ ~IsExactOne(calls[i].right)

\* Instruction i adds to a destination holding Exact(0) an operand that is
\* not Exact(0).
AddsToZero(i) ==
    /\ instructions[i].op = "Add"
    /\ IsExactZero(calls[i].left)
    /\ ~IsExactZero(calls[i].right)

\* C19 (Identity reuse on multiply-by-one destination): a Multiply whose
\* destination holds Exact(1) and whose operand is not Exact(1) returns the
\* operand value itself, identity included, and mints nothing, as an Add
\* with destination Exact(0) does; the destination and the operand register
\* then share one identity; and every value the evaluator returns carries a
\* freshly minted identity or is its left or its right argument.
C19_MultiplyByOneReuse ==
    Propagated =>
        \A i \in Evaluations :
            /\ MultipliesOne(i) \/ AddsToZero(i) =>
                  /\ calls[i].result = calls[i].right
                  /\ NothingMinted(i)
                  /\ instructions[i].operand.kind = "Register" =>
                        registers_after_instr[i][instructions[i].dst].vid
                            = registers_after_instr[i][instructions[i].operand.v].vid
            /\ \/ /\ calls[i].after_id = calls[i].before_id + 1
                  /\ calls[i].result.vid = calls[i].before_id
               \/ /\ NothingMinted(i)
                  /\ calls[i].result \in {calls[i].left, calls[i].right}

\* A register holding Exact(1) was multiplied by a register holding an
\* input, and the two registers hold the input's identity afterwards.
C19_Witness ==
    /\ phase = "propagated"
    /\ \E i \in Evaluations :
          /\ MultipliesOne(i)
          /\ calls[i].right.tag = "Input"
          /\ instructions[i].operand.kind = "Register"
          /\ instructions[i].operand.v # instructions[i].dst
          /\ registers_after_instr[i][instructions[i].dst].vid = calls[i].right.vid

====
